---- MODULE Spec2Model ----
(***************************************************************************)
(* A model of the internet-scraping package: the keyword extractor         *)
(* (keyword_extractor.py), the SQLite keyword store (keyword_store.py),    *)
(* the page scraper (scraper.py) and the crawl loop (crawler.py).          *)
(*                                                                         *)
(* A URL is a record [host, path, frag]; host stands for urlparse's        *)
(* netloc.  An anchor's href is a record [kind, host, path, frag].  The    *)
(* result of Scraper.fetch is a record whose kind is "None" (the request   *)
(* failed), "empty" (a 200 response with an empty body) or "html".  A      *)
(* text is a sequence of pieces: alphanumeric fragments and separators.    *)
(***************************************************************************)
EXTENDS Integers, Sequences, FiniteSets, TLC

\* ------------------------------------------------------------------ bounds

\* Crawler(max_pages=...) is given an argument in 0..MaxPagesArg.
MaxPagesArg == 2

\* A fetched page holds at most MaxLinks anchors.
MaxLinks == 2

\* A caller makes at most MaxCalls add_keywords calls on one store.
MaxCalls == 3

\* The text given to extract_keywords has at most MaxTextLen pieces.
MaxTextLen == 5

\* ------------------------------------------------------------ small helpers

Max(a, b) == IF a >= b THEN a ELSE b

Min(a, b) == IF a <= b THEN a ELSE b

Range(s) == {s[i] : i \in DOMAIN s}

NoDup(s) == \A i, j \in DOMAIN s : s[i] = s[j] => i = j

\* All orderings of the finite set S as sequences without repetition.
Perms(S) ==
    {s \in [1..Cardinality(S) -> S] : \A i, j \in 1..Cardinality(S) : s[i] = s[j] => i = j}

\* ------------------------------------------------------- keyword_extractor

STOPWORDS ==
    {"the", "and", "for", "that", "with", "this", "from", "which", "your",
     "have", "will", "are", "not", "you", "but", "can", "all", "about",
     "their", "there", "when", "what", "where", "who", "why", "been",
     "here", "such", "into", "they", "them", "then", "were", "also", "more",
     "most", "some", "does", "than", "other", "these", "those", "like",
     "just", "make", "made", "each", "many", "much", "because", "could",
     "would", "should", "very", "within", "without", "still", "over",
     "under", "again", "after", "before", "while", "being", "else",
     "ever", "every", "upon", "once", "said", "tell", "told", "good",
     "bad", "another", "few", "own", "use", "used", "using", "uses"}

\* Pieces a text is made of: runs of characters outside [a-z0-9] once
\* lowercased (separators) and alphanumeric fragments.
Seps == {" ", "-", ". "}

Frags == {"data", "Data", "page", "s", "the", "This", "web", "crawl"}

\* text.lower() on one piece.
Lower(p) ==
    CASE p = "Data" -> "data"
      [] p = "This" -> "this"
      [] OTHER -> p

\* re.sub(r"[^a-z0-9]+", " ", text).split(): maximal runs of alphanumeric
\* pieces, joined; cur is the token being read.
RECURSIVE Split(_, _)
Split(ps, cur) ==
    IF ps = <<>>
    THEN IF cur = "" THEN <<>> ELSE <<cur>>
    ELSE IF Lower(Head(ps)) \in Seps
         THEN (IF cur = "" THEN <<>> ELSE <<cur>>) \o Split(Tail(ps), "")
         ELSE Split(Tail(ps), cur \o Lower(Head(ps)))

Tokenize(text) == Split(text, "")

\* A filter that forgets the length test.
KeepWord_AnyLength(w) == w \notin STOPWORDS

\* [w for w in tokens if len(w) > 3 and w not in _STOPWORDS]
KeepWord(w) == Len(w) > 3 /\ w \notin STOPWORDS

FilterWords(tokens) == SelectSeq(tokens, KeepWord)

\* collections.Counter(words): the keys in order of first occurrence ...
RECURSIVE CounterKeys(_)
CounterKeys(words) ==
    IF words = <<>> THEN <<>>
    ELSE LET rest == CounterKeys(SubSeq(words, 1, Len(words) - 1))
             w == words[Len(words)]
         IN IF w \in Range(rest) THEN rest ELSE Append(rest, w)

\* ... and the count of each key.
CounterCount(words, w) == Cardinality({i \in DOMAIN words : words[i] = w})

\* No sort: the keys as the Counter holds them.
SortByCount_Unsorted(keys, words) == keys

\* A sort by count that puts the later of two keys of equal count first.
RECURSIVE SortByCount_LastTie(_, _)
SortByCount_LastTie(keys, words) ==
    IF keys = <<>> THEN <<>>
    ELSE LET best == CHOOSE i \in DOMAIN keys :
                       /\ \A j \in DOMAIN keys :
                            CounterCount(words, keys[j]) <= CounterCount(words, keys[i])
                       /\ \A j \in (i + 1)..Len(keys) :
                            CounterCount(words, keys[j]) < CounterCount(words, keys[i])
             others == [k \in 1..(Len(keys) - 1) |->
                          IF k < best THEN keys[k] ELSE keys[k + 1]]
         IN <<keys[best]>> \o SortByCount_LastTie(others, words)

\* sorted(items, key=count, reverse=True): stable, so keys of equal count
\* keep their order of first occurrence.
RECURSIVE SortByCount(_, _)
SortByCount(keys, words) ==
    IF keys = <<>> THEN <<>>
    ELSE LET best == CHOOSE i \in DOMAIN keys :
                       /\ \A j \in DOMAIN keys :
                            CounterCount(words, keys[j]) <= CounterCount(words, keys[i])
                       /\ \A j \in 1..(i - 1) :
                            CounterCount(words, keys[j]) < CounterCount(words, keys[i])
             others == [k \in 1..(Len(keys) - 1) |->
                          IF k < best THEN keys[k] ELSE keys[k + 1]]
         IN <<keys[best]>> \o SortByCount(others, words)

\* Counter.most_common(n) for an integer n: heapq.nlargest(n, items, key),
\* which is sorted(items, key, reverse=True)[:n] for n >= 1 and [] for n <= 0.
MostCommon(words, n) ==
    LET ranked == SortByCount(CounterKeys(words), words)
    IN IF n <= 0 THEN <<>> ELSE SubSeq(ranked, 1, Min(n, Len(ranked)))

extract_keywords(text, top_n) == MostCommon(FilterWords(Tokenize(text)), top_n)

\* ----------------------------------------------------------------- scraper

NoUrl == [host |-> "", path |-> "", frag |-> ""]

\* The href attributes a page's anchors may carry: relative references
\* (resolved against the page), one of them with a fragment, an absolute URL
\* on the other host, and a mailto: link.
Hrefs ==
    {[kind |-> "rel", host |-> "", path |-> "/", frag |-> ""],
     [kind |-> "rel", host |-> "", path |-> "/x", frag |-> ""],
     [kind |-> "rel", host |-> "", path |-> "/y", frag |-> "top"],
     [kind |-> "abs", host |-> "b.test", path |-> "/x", frag |-> ""],
     [kind |-> "mailto", host |-> "", path |-> "", frag |-> ""]}

\* The visible texts a fetched page may have.
Texts ==
    {<<"the", " ", "web", ". ", "This">>,
     <<"Data", " ", "page", "s", "-", "data", " ", "crawl", " ", "page", "s">>}

\* Scraper.fetch's results: None, an empty body, or an HTML document.
NoneResult == [kind |-> "None", anchors |-> {}, text |-> <<>>]

EmptyBody == [kind |-> "empty", anchors |-> {}, text |-> <<>>]

Htmls ==
    {[kind |-> "html", anchors |-> a, text |-> t] :
        a \in {h \in SUBSET Hrefs : Cardinality(h) <= MaxLinks}, t \in Texts}

\* Everything Scraper.fetch may return.
FetchResults == {NoneResult, EmptyBody} \cup Htmls

\* A test for None instead: `if html is None`.
Truthy_NotNone(html) == html.kind # "None"

\* `if not html` is false exactly for a non-empty string.
Truthy(html) == html.kind = "html"

\* Scraper.parse_text: the visible text of the document.
parse_text(html) == html.text

\* urlparse(url).netloc
Netloc(u) == u.host

\* href.startswith(("mailto:", "javascript:"))
SkippedScheme(h) == h.kind = "mailto"

\* urljoin(base_url, href): an absolute href stands for itself, a relative
\* path is resolved on the base's network location.
urljoin(base, h) ==
    IF h.kind = "abs" THEN [host |-> h.host, path |-> h.path, frag |-> h.frag]
    ELSE [host |-> base.host, path |-> h.path, frag |-> h.frag]

\* abs_url.split("#", 1)[0]
StripFragment(u) == [u EXCEPT !.frag = ""]

\* A link filter that lets every host through.
SameDomain_Any(abs_url, base_url) == TRUE

\* Only links whose netloc equals the base URL's are kept.
SameDomain(abs_url, base_url) == Netloc(abs_url) = Netloc(base_url)

extract_links(html, base_url) ==
    {StripFragment(urljoin(base_url, h)) :
        h \in {a \in html.anchors :
                 /\ ~SkippedScheme(a)
                 /\ SameDomain(urljoin(base_url, a), base_url)}}

\* ----------------------------------------------------------- keyword_store

\* A store is the committed rows of the database file, the rows of the
\* connection's open transaction, and whether the connection is open.
Rows(u, kws) == [i \in 1..Len(kws) |-> [url |-> u, keyword |-> kws[i]]]

\* KeywordStore(db_path): connect to the file and keep what it holds.
KeywordStore(rows) == [open |-> TRUE, committed |-> rows, pending |-> <<>>]

\* add_keywords: executemany inserts one row per keyword, commit makes the
\* transaction's rows durable.
add_keywords(store, u, kws) ==
    [store EXCEPT !.committed = store.committed \o store.pending \o Rows(u, kws),
                  !.pending = <<>>]

\* add_keywords raising after k rows were inserted: no commit is reached,
\* the rows stay in the connection's open transaction.
add_keywords_raises(store, u, kws, k) ==
    [store EXCEPT !.pending = store.pending \o SubSeq(Rows(u, kws), 1, k)]

\* close(): the connection is closed; an open transaction is rolled back.
close(store) == [store EXCEPT !.open = FALSE, !.pending = <<>>]

\* A connection that forgets it was closed.
Usable_Always(store) == TRUE

\* self._conn.cursor() works on an open connection only; on a closed one
\* sqlite3 raises ProgrammingError.
Usable(store) == store.open

\* The rows a SELECT on the connection sees: the committed ones and those
\* of its own open transaction, in insertion order.
VisibleRows(store) == store.committed \o store.pending

\* SELECT keyword FROM keywords WHERE url = ?
get_keywords(store, u) ==
    LET rows == SelectSeq(VisibleRows(store), LAMBDA r : r.url = u)
    IN [i \in DOMAIN rows |-> rows[i].keyword]

\* The order of ORDER BY url: strings compared character by character, a
\* proper prefix first.  A stored URL is a sequence of character codes.
RECURSIVE LexLess(_, _)
LexLess(a, b) ==
    IF b = <<>> THEN FALSE
    ELSE IF a = <<>> THEN TRUE
    ELSE \/ Head(a) < Head(b)
         \/ Head(a) = Head(b) /\ LexLess(Tail(a), Tail(b))

RECURSIVE SortUrls(_)
SortUrls(S) ==
    IF S = {} THEN <<>>
    ELSE LET m == CHOOSE x \in S : \A y \in S \ {x} : LexLess(x, y)
         IN <<m>> \o SortUrls(S \ {m})

\* A query without DISTINCT and ORDER BY: one URL per row, in row order.
list_urls_PerRow(store) == [i \in DOMAIN VisibleRows(store) |-> VisibleRows(store)[i].url]

\* SELECT DISTINCT url FROM keywords ORDER BY url
list_urls(store) == SortUrls({r.url : r \in Range(VisibleRows(store))})

\* ----------------------------------------------------------------- crawler

VARIABLES
    cfg,            \* the arguments: start_url, max_pages, delay, top_n, db
    max_pages,      \* Crawler.max_pages
    delay,          \* Crawler.delay
    pc,             \* "idle", "loop", "fetch", "sleep", "done", "raised"
    store,          \* the KeywordStore of the call
    visited,        \* crawl's visited
    queue,          \* crawl's queue
    pages_crawled,  \* crawl's pages_crawled
    url,            \* crawl's url
    html,           \* crawl's html: the document of the current iteration
    events,         \* what the call did, in order: fetch, add, sleep, close
    discovered      \* history: the URLs in the order they were enqueued,
                    \* each with its link distance from start_url

\* A KeywordStore driven directly by a caller.
VARIABLES
    kstore,         \* the store
    reply,          \* what the last call returned or raised
    added,          \* history: per URL, the keywords of the add_keywords
                    \* calls that returned, in call order
    ncalls          \* the number of add_keywords calls made

\* One call of extract_keywords.
VARIABLES
    ek_text,        \* the text argument
    ek_top_n,       \* the top_n argument
    ek_result       \* the list returned, once the call was made

crawl_vars == <<cfg, max_pages, delay, pc, store, visited, queue, pages_crawled,
                url, html, events, discovered>>

store_vars == <<kstore, reply, added, ncalls>>

extract_vars == <<ek_text, ek_top_n, ek_result>>

vars == <<crawl_vars, store_vars, extract_vars>>

StartUrls == {[host |-> "a.test", path |-> "/", frag |-> ""]}

DelayArgs == {-1, 0, 1}

TopNArgs == {-1, 0, 2}

\* What the database file may hold before the call.
DbFiles ==
    {<<>>,
     <<[url |-> [host |-> "a.test", path |-> "/", frag |-> ""], keyword |-> "data"]>>}

Configs ==
    [start_url : StartUrls, max_pages : 0..MaxPagesArg, delay : DelayArgs,
     top_n : TopNArgs, db : DbFiles]

\* A constructor that keeps max_pages as given.
InitMaxPages_NoClamp(arg) == arg

\* Crawler.__init__
InitMaxPages(arg) == Max(1, arg)

InitDelay(arg) == Max(0, arg)

Event(e, u, r) == [ev |-> e, url |-> u, result |-> r]

\* The store driven by a caller and the extract_keywords call, not in use.
NoReply == [op |-> "none", status |-> "ok", value |-> <<>>]

StoreParked ==
    /\ kstore = [open |-> FALSE, committed |-> <<>>, pending |-> <<>>]
    /\ reply = NoReply
    /\ added = <<>>
    /\ ncalls = 0

ExtractParked ==
    /\ ek_text = <<>>
    /\ ek_top_n = 0
    /\ ek_result = [called |-> FALSE, value |-> <<>>]

Init ==
    /\ cfg \in Configs
    /\ max_pages = InitMaxPages(cfg.max_pages)
    /\ delay = InitDelay(cfg.delay)
    /\ pc = "idle"
    /\ store = [open |-> FALSE, committed |-> cfg.db, pending |-> <<>>]
    /\ visited = {}
    /\ queue = <<>>
    /\ pages_crawled = 0
    /\ url = NoUrl
    /\ html = NoneResult
    /\ events = <<>>
    /\ discovered = <<>>
    /\ StoreParked
    /\ ExtractParked

\* A loop condition that lets one page too many through.
LoopCond_OffByOne(q, n, mp) == q # <<>> /\ n <= mp

\* A loop condition that ignores the page budget.
LoopCond_NoBudget(q, n, mp) == q # <<>>

\* while queue and pages_crawled < self.max_pages
LoopCond(q, n, mp) == q # <<>> /\ n < mp

\* Reading queue[0] without removing it.
PopLeft_Peek(q) == q

\* queue.popleft(): what is left of the queue.
PopLeft(q) == Tail(q)

\* A crawl that forgets to mark the URL.
MarkVisited_Forget(vis, u) == vis

\* visited.add(url)
MarkVisited(vis, u) == vis \cup {u}

\* Enqueueing without looking at visited.
NewLinks_IgnoreVisited(links, vis, q) == {l \in links : l \notin Range(q)}

\* if link not in visited and link not in queue
NewLinks(links, vis, q) == {l \in links : l \notin vis /\ l \notin Range(q)}

\* Links pushed at the front of the deque, one by one.
AppendAll_Left(q, p) == [i \in 1..Len(p) |-> p[Len(p) + 1 - i]] \o q

\* queue.append(link) for each link of p, in order.
AppendAll(q, p) == q \o p

\* The for loop over the set links appends the new ones in the order the
\* set iterates, which is not fixed: every order is possible.
Enqueue(q, vis, links) == {AppendAll(q, p) : p \in Perms(NewLinks(links, vis, q))}

\* History of the enqueued links: each with its distance from start_url.
Found(p, d) == [i \in 1..Len(p) |-> [url |-> p[i], depth |-> d]]

DepthOf(disc, u) == disc[CHOOSE i \in DOMAIN disc : disc[i].url = u].depth

\* if self.delay
DelayNeeded(d) == d # 0

\* crawl(): the store is opened, visited and queue are initialised.
Start ==
    /\ pc = "idle"
    /\ store' = KeywordStore(cfg.db)
    /\ visited' = {}
    /\ queue' = <<cfg.start_url>>
    /\ pages_crawled' = 0
    /\ pc' = "loop"
    /\ discovered' = <<[url |-> cfg.start_url, depth |-> 0]>>
    /\ UNCHANGED <<store_vars, extract_vars, cfg, max_pages, delay, url, html, events>>

\* KeywordStore(store_path) raises (sqlite3.connect or CREATE TABLE fails):
\* the exception leaves crawl.
StartRaises ==
    /\ pc = "idle"
    /\ pc' = "raised"
    /\ UNCHANGED <<store_vars, extract_vars, discovered, cfg, max_pages, delay, store, visited, queue, pages_crawled,
                   url, html, events>>

\* The loop condition holds: popleft, the visited guard, visited.add.  The
\* previous iteration's html is dead from here on (fetch overwrites it before
\* it is read), so it is forgotten.
Dequeue ==
    /\ pc = "loop"
    /\ LoopCond(queue, pages_crawled, max_pages)
    /\ url' = Head(queue)
    /\ queue' = PopLeft(queue)
    /\ IF Head(queue) \in visited
       THEN /\ pc' = "loop"
            /\ UNCHANGED visited
       ELSE /\ pc' = "fetch"
            /\ visited' = MarkVisited(visited, Head(queue))
    /\ html' = NoneResult
    /\ UNCHANGED <<store_vars, extract_vars, discovered, cfg, max_pages, delay, store, pages_crawled, events>>

\* A failed fetch that is counted against the page budget.
FetchFails_Counted ==
    /\ pc = "fetch"
    /\ \E r \in FetchResults :
         /\ ~Truthy(r)
         /\ html' = r
         /\ events' = Append(events, Event("fetch", url, r.kind))
    /\ pc' = "loop"
    /\ pages_crawled' = pages_crawled + 1
    /\ UNCHANGED <<store_vars, extract_vars, discovered, cfg, max_pages, delay, store, visited, queue, url>>

\* fetch returns None or an empty body: `if not html: continue`.
FetchFails ==
    /\ pc = "fetch"
    /\ \E r \in FetchResults :
         /\ ~Truthy(r)
         /\ html' = r
         /\ events' = Append(events, Event("fetch", url, r.kind))
    /\ pc' = "loop"
    /\ UNCHANGED <<store_vars, extract_vars, discovered, cfg, max_pages, delay, store, visited, queue, pages_crawled, url>>

\* fetch returns a document: its keywords are stored, its new links are
\* enqueued, the page is counted.
ProcessPage ==
    /\ pc = "fetch"
    /\ \E h \in FetchResults :
         LET keywords == extract_keywords(parse_text(h), cfg.top_n)
             links == extract_links(h, url)
         IN /\ Truthy(h)
            /\ html' = h
            /\ IF keywords # <<>>
               THEN /\ store' = add_keywords(store, url, keywords)
                    /\ events' = events \o <<Event("fetch", url, "html"),
                                             Event("add", url, "ok")>>
               ELSE /\ store' = store
                    /\ events' = Append(events, Event("fetch", url, "html"))
            /\ \E p \in Perms(NewLinks(links, visited, queue)) :
                 /\ queue' = AppendAll(queue, p)
                 /\ discovered' = discovered \o Found(p, DepthOf(discovered, url) + 1)
    /\ pages_crawled' = pages_crawled + 1
    /\ pc' = IF DelayNeeded(delay) THEN "sleep" ELSE "loop"
    /\ UNCHANGED <<store_vars, extract_vars, cfg, max_pages, delay, visited, url>>

\* fetch returns a document and store.add_keywords raises (the database is
\* locked, the disk is full): the exception leaves crawl.
ProcessPageRaises ==
    /\ pc = "fetch"
    /\ \E h \in FetchResults :
         LET keywords == extract_keywords(parse_text(h), cfg.top_n)
         IN /\ Truthy(h)
            /\ keywords # <<>>
            /\ html' = h
            /\ \E k \in 0..Len(keywords) :
                 store' = add_keywords_raises(store, url, keywords, k)
    /\ events' = events \o <<Event("fetch", url, "html"), Event("add", url, "raised")>>
    /\ pc' = "raised"
    /\ UNCHANGED <<store_vars, extract_vars, discovered, cfg, max_pages, delay, visited, queue, pages_crawled, url>>

\* time.sleep(self.delay)
Sleep ==
    /\ pc = "sleep"
    /\ events' = Append(events, Event("sleep", NoUrl, "ok"))
    /\ pc' = "loop"
    /\ UNCHANGED <<store_vars, extract_vars, discovered, cfg, max_pages, delay, store, visited, queue, pages_crawled,
                   url, html>>

\* The loop condition fails: store.close(); return visited.
Finish ==
    /\ pc = "loop"
    /\ ~LoopCond(queue, pages_crawled, max_pages)
    /\ store' = close(store)
    /\ events' = Append(events, Event("close", NoUrl, "ok"))
    /\ pc' = "done"
    /\ UNCHANGED <<store_vars, extract_vars, discovered, cfg, max_pages, delay, visited, queue, pages_crawled, url, html>>

Next ==
    \/ Start
    \/ StartRaises
    \/ Dequeue
    \/ FetchFails
    \/ ProcessPage
    \/ ProcessPageRaises
    \/ Sleep
    \/ Finish

Spec == Init /\ [][Next]_vars

\* The interpreter keeps running the call: a step that can be taken is taken.
FairSpec == Spec /\ WF_vars(Next)

\* ------------------------------------------------- a caller of the store

\* The crawler, not in use.
CrawlParked ==
    /\ cfg = [start_url |-> NoUrl, max_pages |-> 1, delay |-> 0, top_n |-> 1, db |-> <<>>]
    /\ max_pages = 1
    /\ delay = 0
    /\ pc = "parked"
    /\ store = [open |-> FALSE, committed |-> <<>>, pending |-> <<>>]
    /\ visited = {}
    /\ queue = <<>>
    /\ pages_crawled = 0
    /\ url = NoUrl
    /\ html = NoneResult
    /\ events = <<>>
    /\ discovered = <<>>

\* The URLs given to the store, as character codes: "a", "ab", "b".
StoreUrls == {<<1>>, <<1, 2>>, <<2>>}

\* The keyword lists given to add_keywords.
KeywordLists == {<<>>, <<"data">>, <<"page", "data">>}

Reply(op, status, value) == [op |-> op, status |-> status, value |-> value]

\* What a call on a closed connection raises.
ClosedError == "ProgrammingError"

StoreInit ==
    /\ kstore = KeywordStore(<<>>)
    /\ reply = NoReply
    /\ added = [u \in StoreUrls |-> <<>>]
    /\ ncalls = 0
    /\ CrawlParked
    /\ ExtractParked

\* add_keywords(u, kws) returns.
AddKeywords ==
    /\ Usable(kstore)
    /\ ncalls < MaxCalls
    /\ \E u \in StoreUrls, kws \in KeywordLists :
         /\ kstore' = add_keywords(kstore, u, kws)
         /\ added' = [added EXCEPT ![u] = @ \o kws]
    /\ reply' = Reply("add_keywords", "ok", <<>>)
    /\ ncalls' = ncalls + 1
    /\ UNCHANGED <<crawl_vars, extract_vars>>

\* add_keywords(u, kws) raises after k rows were inserted (a keyword that
\* cannot be bound, a full disk), or with all of them inserted when commit
\* raises.
AddKeywordsRaises ==
    /\ Usable(kstore)
    /\ ncalls < MaxCalls
    /\ \E u \in StoreUrls, kws \in KeywordLists :
         \E k \in 0..Len(kws) :
            kstore' = add_keywords_raises(kstore, u, kws, k)
    /\ reply' = Reply("add_keywords", "raised", <<>>)
    /\ ncalls' = ncalls + 1
    /\ UNCHANGED <<added, crawl_vars, extract_vars>>

\* get_keywords(u)
GetKeywords ==
    /\ Usable(kstore)
    /\ \E u \in StoreUrls :
         reply' = Reply("get_keywords", "ok", get_keywords(kstore, u))
    /\ UNCHANGED <<kstore, added, ncalls, crawl_vars, extract_vars>>

\* list_urls()
ListUrls ==
    /\ Usable(kstore)
    /\ reply' = Reply("list_urls", "ok", list_urls(kstore))
    /\ UNCHANGED <<kstore, added, ncalls, crawl_vars, extract_vars>>

\* close(), on an open or on a closed store.
Close ==
    /\ kstore' = close(kstore)
    /\ reply' = Reply("close", "ok", <<>>)
    /\ UNCHANGED <<added, ncalls, crawl_vars, extract_vars>>

\* add_keywords, get_keywords or list_urls on a closed store: cursor()
\* raises, nothing else happens.
CallOnClosed ==
    /\ ~Usable(kstore)
    /\ \E op \in {"add_keywords", "get_keywords", "list_urls"} :
         reply' = Reply(op, ClosedError, <<>>)
    /\ UNCHANGED <<kstore, added, ncalls, crawl_vars, extract_vars>>

StoreNext ==
    \/ AddKeywords
    \/ AddKeywordsRaises
    \/ GetKeywords
    \/ ListUrls
    \/ Close
    \/ CallOnClosed

StoreSpec == StoreInit /\ [][StoreNext]_vars

\* ---------------------------------------------- a call of extract_keywords

\* The pieces of the texts given to extract_keywords: words, a suffix that
\* joins the word before it, a capitalised stopword, a separator.
ExtractPieces == {"data", "page", "s", "This", " "}

ExtractTexts == UNION {[1..n -> ExtractPieces] : n \in 0..MaxTextLen}

ExtractTopNs == {-1, 0, 1, 2, 3}

ExtractInit ==
    /\ ek_text \in ExtractTexts
    /\ ek_top_n \in ExtractTopNs
    /\ ek_result = [called |-> FALSE, value |-> <<>>]
    /\ CrawlParked
    /\ StoreParked

Extract ==
    /\ ~ek_result.called
    /\ ek_result' = [called |-> TRUE, value |-> extract_keywords(ek_text, ek_top_n)]
    /\ UNCHANGED <<ek_text, ek_top_n, crawl_vars, store_vars>>

ExtractNext == Extract

ExtractSpec == ExtractInit /\ [][ExtractNext]_vars

\* ------------------------------------------------------------- properties

IsFetch(e) == e.ev = "fetch"

IsAdd(e) == e.ev = "add"

\* The fetches and the add_keywords calls of the crawl, in order.
Fetches == SelectSeq(events, IsFetch)

Adds == SelectSeq(events, IsAdd)

UrlsOf(es) == [i \in DOMAIN es |-> es[i].url]

Ended == pc \in {"done", "raised"}

\* C1: the number of successfully processed pages never exceeds max_pages,
\* and once it equals max_pages nothing more is dequeued or fetched, whatever
\* is left in the queue.
C1_PageBudget ==
    /\ [](pages_crawled <= max_pages)
    /\ [][pages_crawled = max_pages =>
            /\ queue' = queue
            /\ visited' = visited
            /\ pages_crawled' = pages_crawled
            /\ Fetches' = Fetches]_vars

\* The budget is exhausted while the frontier still holds a link.
C1_Witness ==
    /\ pc = "done"
    /\ pages_crawled = max_pages
    /\ max_pages >= 2
    /\ queue # <<>>

\* C2: within one crawl, fetch is invoked at most once per URL, and
\* add_keywords at most once per URL, right after that URL's successful fetch.
C2_FetchOnce ==
    /\ NoDup(UrlsOf(Fetches))
    /\ NoDup(UrlsOf(Adds))
    /\ \A i \in DOMAIN events :
         IsAdd(events[i]) =>
            /\ i > 1
            /\ events[i - 1] = Event("fetch", events[i].url, "html")

\* A fetch failed, a later page linked back to a visited URL, keywords were
\* stored, and the crawl went on.
C2_Witness ==
    /\ \E i \in DOMAIN Fetches : Fetches[i].result = "None"
    /\ Len(Adds) >= 1
    /\ Truthy(html)
    /\ \E v \in visited : v \in extract_links(html, url)
    /\ Len(Fetches) >= 3

\* C3: the queue holds no URL twice and no URL that is in visited.
C3_Frontier ==
    /\ NoDup(queue)
    /\ \A i \in DOMAIN queue : queue[i] \notin visited

\* A page that links to itself and to another visited page was processed
\* while the frontier was not empty.
C3_Witness ==
    /\ pc \in {"loop", "sleep"}
    /\ Truthy(html)
    /\ url \in extract_links(html, url)
    /\ \E v \in visited \ {url} : v \in extract_links(html, url)
    /\ queue # <<>>

\* C4: a failed fetch marks the URL visited, writes nothing, enqueues nothing,
\* leaves the counter alone and goes back to the loop; if the seed's fetch
\* fails the crawl returns visited = {seed}, nothing written, counter 0.
C4_FailedFetch ==
    /\ [][(pc = "fetch" /\ html'.kind = "None") =>
            /\ url \in visited'
            /\ store' = store
            /\ queue' = queue
            /\ pages_crawled' = pages_crawled
            /\ pc' = "loop"]_vars
    /\ []((pc = "done" /\ Fetches # <<>> /\ Fetches[1].result = "None") =>
            /\ visited = {cfg.start_url}
            /\ store.committed = cfg.db
            /\ Adds = <<>>
            /\ pages_crawled = 0)

\* The seed's fetch failed and the crawl returned.
C4_Witness ==
    /\ pc = "done"
    /\ Fetches = <<Event("fetch", cfg.start_url, "None")>>
    /\ visited = {cfg.start_url}

\* C5: every crawl call ends.
C5_Terminates == <>Ended

\* A crawl over a graph with a cycle and a dead link ran to its end.
C5_Witness ==
    /\ pc = "done"
    /\ Len(Fetches) >= 3
    /\ \E i \in DOMAIN Fetches : Fetches[i].result = "None"
    /\ Truthy(html)
    /\ cfg.start_url \in extract_links(html, url)

C7_SameDomain ==
    \A u \in visited \cup Range(queue) : Netloc(u) = Netloc(cfg.start_url)

\* A processed page carried an anchor to another host.
C7_Witness ==
    /\ pc = "done"
    /\ Truthy(html)
    /\ \E a \in html.anchors : a.kind = "abs" /\ a.host # Netloc(url)
    /\ Cardinality(visited) >= 2

\* C8 as stated: with delay > 0 there is a sleep between any two successive
\* fetches.
C8_PauseBetweenFetches ==
    delay > 0 =>
        \A i, j \in DOMAIN events :
            (i < j /\ IsFetch(events[i]) /\ IsFetch(events[j])) =>
                \E k \in (i + 1)..(j - 1) : events[k].ev = "sleep"

\* C9 as stated: when the call ends the store is closed, and nothing is
\* written after the close.
C9_StoreClosed ==
    /\ Ended => ~store.open
    /\ \A i, j \in DOMAIN events :
         (events[i].ev = "close" /\ IsAdd(events[j])) => j < i

InvalidInput == cfg.max_pages < 1 \/ cfg.top_n <= 0

\* C10 as stated: with max_pages < 1 or top_n <= 0 the call ends in an error
\* before any fetch.
C10_FailsFast == InvalidInput => (Fetches = <<>> /\ pc # "done")

\* C10 amended: invalid input is not rejected.  max_pages < 1 is clamped to 1;
\* with top_n <= 0 extract_keywords returns the empty list, so the crawl
\* fetches as usual and stores nothing, and nothing but opening the store can
\* raise.
C10_NoValidation ==
    /\ cfg.max_pages < 1 => max_pages = 1
    /\ cfg.top_n <= 0 =>
          /\ Truthy(html) => extract_keywords(parse_text(html), cfg.top_n) = <<>>
          /\ store.committed = cfg.db
          /\ store.pending = <<>>
          /\ Adds = <<>>
          /\ pc = "raised" => events = <<>>

\* A crawl given max_pages = 0 and top_n <= 0 processed a page whose text has
\* keywords, and returned.
C10_Witness ==
    /\ cfg.max_pages < 1
    /\ cfg.top_n <= 0
    /\ pc = "done"
    /\ pages_crawled = 1
    /\ Truthy(html)
    /\ extract_keywords(parse_text(html), 2) # <<>>

\* ------------------------------------------------- properties of the store

\* The keywords of the committed rows of URL u, in insertion order.
CommittedKeywords(u) ==
    LET rows == SelectSeq(kstore.committed, LAMBDA r : r.url = u)
    IN [i \in DOMAIN rows |-> rows[i].keyword]

\* C11 as stated: on an open store, get_keywords(u) returns exactly the
\* concatenation, in call order, of the keyword lists added for u by the
\* add_keywords calls that returned; for a URL nothing was added for, the
\* empty list.
C11_RoundTrip ==
    kstore.open => \A u \in StoreUrls : get_keywords(kstore, u) = added[u]

\* C12 as stated: add_keywords is atomic.  The rows a read sees are the
\* committed ones, and the committed rows of every URL are those of the calls
\* that returned: no row of a call that raised is visible or committed.
C12_Atomic ==
    /\ VisibleRows(kstore) = kstore.committed
    /\ \A u \in StoreUrls : CommittedKeywords(u) = added[u]

\* The URLs of which a read of the store finds at least one keyword.
UrlsWithKeywords(st) == {u \in StoreUrls : get_keywords(st, u) # <<>>}

ClosedCall ==
    /\ ~kstore.open
    /\ reply'.op \in {"add_keywords", "get_keywords", "list_urls"}

\* C14 as stated: a call on a closed store fails with a ClosedStoreError and
\* changes no stored record.
C14_ClosedStoreError ==
    [][ClosedCall => (reply'.status = "ClosedStoreError" /\ kstore' = kstore)]_vars

\* C14 amended: a call on a closed store fails with sqlite3's
\* ProgrammingError and changes no stored record.
C14_ClosedFails ==
    [][ClosedCall => (reply'.status = "ProgrammingError" /\ kstore' = kstore)]_vars

\* add_keywords failed on a closed store that holds records.
C14_Witness ==
    /\ ~kstore.open
    /\ kstore.committed # <<>>
    /\ reply.op = "add_keywords"
    /\ reply.status = "ProgrammingError"

\* -------------------------------------------- properties of the extractor

\* The tokens of the text that pass the filter, in text order.
Surviving == FilterWords(Tokenize(ek_text))

Count(w) == CounterCount(Surviving, w)

\* The position of the first occurrence of w among the surviving tokens.
FirstOcc(w) == CHOOSE i \in DOMAIN Surviving :
                  Surviving[i] = w /\ \A j \in 1..(i - 1) : Surviving[j] # w

Returned == Range(ek_result.value)

\* C15: for any text and any top_n, extract_keywords returns no stopword and
\* no token of length 3 or less; the empty text yields the empty list.
C15_NoStopwordNoShort ==
    ek_result.called =>
       /\ \A w \in Returned : w \notin STOPWORDS /\ Len(w) > 3
       /\ ek_text = <<>> => ek_result.value = <<>>

\* The text holds the stopword "this" (capitalised) and the short token "s",
\* and something was returned.
C15_Witness ==
    /\ ek_result.called
    /\ "This" \in Range(ek_text)
    /\ "this" \in Range(Tokenize(ek_text))
    /\ "s" \in Range(Tokenize(ek_text))
    /\ ek_result.value # <<>>

\* C16: for top_n >= 1 the result holds exactly min(top_n, number of distinct
\* surviving tokens) distinct surviving tokens, in non-increasing order of
\* count, and no surviving token left out has a higher count than a returned
\* one.
C16_TopN ==
    (ek_result.called /\ ek_top_n >= 1) =>
       /\ Len(ek_result.value) = Min(ek_top_n, Cardinality(Range(Surviving)))
       /\ NoDup(ek_result.value)
       /\ Returned \subseteq Range(Surviving)
       /\ \A i, j \in DOMAIN ek_result.value :
             i < j => Count(ek_result.value[i]) >= Count(ek_result.value[j])
       /\ \A w \in Range(Surviving) \ Returned :
             \A r \in Returned : Count(w) <= Count(r)

\* With top_n = 1 the first surviving token was left out for one that comes
\* later and occurs more often.
C16_Witness ==
    /\ ek_result.called
    /\ ek_top_n = 1
    /\ Len(ek_result.value) = 1
    /\ Surviving[1] \notin Returned
    /\ Count(Surviving[1]) < Count(ek_result.value[1])

FetchedUrls == UrlsOf(Fetches)

\* The number of fetches that returned r.
FetchCount(r) == Cardinality({i \in DOMAIN Fetches : Fetches[i].result = r})

C19_VisitedCount ==
    pc = "done" =>
       /\ Cardinality(visited) = pages_crawled + FetchCount("None")
       /\ FetchCount("None") = 0 => Cardinality(visited) <= max_pages

\* C19 amended: at return, len(visited) is the number of processed pages plus
\* the number of fetches that failed or returned an empty body, so it is at
\* most max_pages when no fetch does either, and exceeds it only through
\* such fetches.
C19_VisitedCountEmptyBody ==
    pc = "done" =>
       /\ Cardinality(visited) = pages_crawled + FetchCount("None") + FetchCount("empty")
       /\ pages_crawled <= max_pages
       /\ (FetchCount("None") = 0 /\ FetchCount("empty") = 0) =>
             Cardinality(visited) <= max_pages

\* A crawl returned with more visited URLs than max_pages and no failed
\* fetch: one fetch returned an empty body.
C19_Witness ==
    /\ pc = "done"
    /\ Cardinality(visited) > max_pages
    /\ FetchCount("None") = 0
    /\ FetchCount("empty") = 1
    /\ pages_crawled = max_pages

\* C20: a fetch that returns an empty body is handled as a failed one: the URL
\* is visited, nothing is stored, nothing enqueued, the counter keeps its
\* value and no sleep follows.  A page with a body and no keywords is counted,
\* its new links are enqueued, and nothing is stored.
C20_EmptyBody ==
    [][/\ (pc = "fetch" /\ html'.kind = "empty") =>
            /\ url \in visited'
            /\ store' = store
            /\ queue' = queue
            /\ pages_crawled' = pages_crawled
            /\ pc' = "loop"
            /\ events' = Append(events, Event("fetch", url, "empty"))
       /\ (/\ pc = "fetch"
           /\ html'.kind = "html"
           /\ extract_keywords(parse_text(html'), cfg.top_n) = <<>>) =>
            /\ store' = store
            /\ pages_crawled' = pages_crawled + 1
            /\ Len(queue') >= Len(queue)
            /\ SubSeq(queue', 1, Len(queue)) = queue
            /\ Range(queue') =
                  Range(queue) \cup (extract_links(html', url) \ visited)
            /\ pc' \in {"loop", "sleep"}]_vars

\* With top_n > 0, a page without keywords was counted and its links were
\* followed, one of them to an empty body; nothing was stored.
C20_Witness ==
    /\ cfg.top_n > 0
    /\ pages_crawled >= 1
    /\ Adds = <<>>
    /\ store.committed = cfg.db
    /\ FetchCount("empty") >= 1
    /\ FetchCount("html") >= 1
    /\ Cardinality(visited) >= 2
====
